---- MODULE Spec2Model ----
(***************************************************************************)
(* Model of OpenServer (src/app/utils/start_game.py): the launch           *)
(* orchestrator of ARKServerTool.  One worker executes start(); the        *)
(* external server processes, their log file and the files they generate   *)
(* are the environment.                                                    *)
(*                                                                         *)
(* Worlds are named by their position 1..NumWorlds in the stored order of  *)
(* ins_world_info (a dict keeps insertion order).  A process is a pid of   *)
(* the table procs; a pid is handed out again only when its process is     *)
(* not alive and no handle of the orchestrator refers to it, and Popen     *)
(* raises when the table is full.  A wait window (max_wait_time divided    *)
(* by the sleep interval) is MaxPolls polls long.                          *)
(* The log of the world being launched is a sequence of fragments, each    *)
(* written by the server in one piece: "Ready" is text that holds a ready  *)
(* pattern, "Error" text that holds an error pattern, "line" any other     *)
(* text.                                                                   *)
(*                                                                         *)
(* Spec is one run of start().  StopSpec adds calls of stop() after the    *)
(* run.  MergeSpec and CmdSpec apply _write_game_user_settings and         *)
(* _build_server_command on their own to every input within the bounds.    *)
(* ScenarioSpec is the runs of start() in which every server behaves,      *)
(* ConcurrentSpec a run with stop(world_id) called from another thread,    *)
(* EditSpec a run during which the UI thread saves the mod list.           *)
(***************************************************************************)
EXTENDS Integers, Sequences, FiniteSets, TLC

\* ------------------------------------------------------------- bounds
NumWorlds == 2
MaxPid == 3
MaxPolls == 2
MaxLog == 2
MaxCalls == 2

\* ------------------------------------------------- program constants
max_retries == 3
max_retry_attempts == 10

Worlds == 1..NumWorlds
PIDs == 1..MaxPid
\* the stored mods in their stored order, and the ones a run of start() is
\* tried with
ModOrder == <<"m1", "m2">>
ModIds == {ModOrder[i] : i \in 1..Len(ModOrder)}
RunModIds == {"m1"}
Fragments == {"Ready", "Error", "line"}
\* the pieces of a ready pattern a server writes in two steps, "Rea" then "dy"
SplitFragments == {"Rea", "dy", "line"}
None == 0
NoHandle == [kind |-> "none", pid |-> None]
\* the world store before the first save, no save and no start() yet
NoTable == [store |-> [id \in {} |-> id], ret |-> "none", start |-> "none"]

\* the server page after construction: the button enabled, worker_finished
\* true, no message box, no worker thread, nothing queued
NoUi == [enabled |-> TRUE, worker_finished |-> TRUE, box |-> "none", tip |-> "none",
         workers |-> <<>>, queue |-> <<>>, started |-> 0]

\* the profile files config/game_settings/<name>.ini
ProfileNames == {"default", "pve"}

\* every world on the profile "default", the one ins_game_setting loads first
DefaultWorldSet == [w \in Worlds |-> "default"]

\* no call of _check_all_mods_downloaded yet
NoModsCheck == [path |-> "none", entries |-> {}, required |-> {}, result |-> "none"]
\* no call of _cleanup_temp_server in the current phase yet
NoTiers == <<"none", "none">>

\* ini files as configparser reads them: the sections present and, per
\* section, the value of each key (NoValue for a key the section lacks);
\* a file configparser cannot parse is not parsable
Sections == {"ServerSettings", "MessageOfTheDay", "MessageOfTheDay_ARKToolTip"}
TipSections == {"MessageOfTheDay_ARKToolTip"}
Keys == {"Message", "message", "duration"}
ProfileKeys == {"message", "duration"}
Values == {"a", "b"}
NoValue == "-"
IniBody == [Keys -> Values \cup {NoValue}]
EmptyBody == [k \in Keys |-> NoValue]

VARIABLES
    \* configuration stores (ins_server_setting, ins_world_info, ins_mods_setting, profiles)
    exeExists, worldOpen, profileExists, modsOpen, modEntries,
    \* file system
    settingsFile, modsDir, logExists, log,
    \* processes: the OS table, OpenServer._processes, OpenServer._temp_process
    procs, processes, temp_process,
    \* control state of the worker inside start()
    pc, result, attempt, polls, cur, retry_count, last_log_size, new_content,
    \* history of the run; cleanupTiers is what the two termination tiers of
    \* the last call of _cleanup_temp_server in the current phase did
    settingsRet, modsRet, tempLaunched, leaked, cleanupTiers, outcome, launchOrder, writeOrder,
    lastSleep, hardFails, countBefore, lastFail, totalRead,
    \* history of the bootstrap phases: the mods directory was looked at; the
    \* number of wait windows of the phase that ran to their full max_wait;
    \* the enabled mod ids the mods phase worked with (none when mods are off)
    modsChecked, windows, bootMods,
    \* the last call of stop(): its argument (None for no argument) and how it ended
    stopCall,
    \* the sections of the profile store ins_game_setting, the content of
    \* GameUserSettings.ini, the calls of _write_game_user_settings so far and
    \* the number of times the last of them wrote GameUserSettings.ini
    profile, iniFile, mergeCalls, lastWrites,
    \* ins_server_setting.be_open and more_worlds_open; the world of the last
    \* call of _build_server_command (None before any) and the command it
    \* returned (NoCommand before any and when the call raised)
    beOpen, clusterOpen, command, built,
    \* the [ServerSettings] section of each world's profile file
    serverSettings,
    \* the last call of _check_all_mods_downloaded: the path it was given, the entries of that directory, the required ids and what it returned
    modsCheck,
    \* the world store ins_world_info as the world table writes it, what the last save returned and how a start() after it ended
    worldTable,
    \* the server page: the run button, worker_finished, the message box __run_server shows, the worker threads and the signals queued for the UI thread
    ui,
    \* the name of the profile each world record names in its world_set field
    worldSet

config == <<worldSet, ui, worldTable, modsCheck, exeExists, worldOpen, profileExists, serverSettings, modsOpen, modEntries,
           profile, beOpen, clusterOpen>>
files == <<settingsFile, iniFile, modsDir, logExists, log>>
mergeHist == <<mergeCalls, lastWrites>>
monitorLocals == <<cur, retry_count, last_log_size, new_content>>
monitorHist == <<outcome, launchOrder, writeOrder, hardFails, countBefore, lastFail, totalRead>>
bootHist == <<modsChecked, windows, bootMods>>
vars == <<worldSet, ui, worldTable, modsCheck, exeExists, worldOpen, profileExists, modsOpen, modEntries,
          settingsFile, modsDir, logExists, log,
          procs, processes, temp_process,
          pc, result, attempt, polls, cur, retry_count, last_log_size, new_content,
          settingsRet, modsRet, tempLaunched, leaked, cleanupTiers, outcome, launchOrder, writeOrder,
          lastSleep, hardFails, countBefore, lastFail, totalRead,
          modsChecked, windows, bootMods, stopCall, profile, iniFile, mergeCalls, lastWrites,
          beOpen, clusterOpen, command, built, serverSettings>>

\* everything start() and stop() read and write
orchestration == <<worldSet, exeExists, worldOpen, profileExists, serverSettings, modsOpen, modEntries,
                   profile, beOpen, clusterOpen, stopCall, command, built, mergeHist,
                   bootHist, files, procs, processes, temp_process, pc, result, attempt,
                   polls, monitorLocals, monitorHist, settingsRet, modsRet, tempLaunched,
                   leaked, cleanupTiers, lastSleep>>

\* ------------------------------------------------------------ helpers
Min(S) == CHOOSE x \in S : \A y \in S : x <= y

\* next((k, v) for k, v in all_worlds.items() if v["open"]), (None, None))
FirstEnabledWorld ==
    IF \E w \in Worlds : worldOpen[w] THEN Min({w \in Worlds : worldOpen[w]}) ELSE None

\* every stored mod taken as enabled
EnabledMods_All == ModIds

\* {mod_id for mod_id, mod_data in ins_mods_setting.get_all().items() if mod_data["open"]}
EnabledMods == {m \in ModIds : modEntries[m]}

\* a check that never finds the mods
AllModsDownloaded_Never == FALSE

\* required_mods.issubset(downloaded_mods), false when the mods directory is missing
AllModsDownloaded == modsDir # {} /\ EnabledMods \subseteq modsDir

\* a pid the OS can give to a new process
FreshPids ==
    {p \in PIDs : /\ procs[p] # "alive"
                  /\ p # temp_process
                  /\ \A w \in Worlds : processes[w].pid # p}

\* subprocess.Popen: a new pid, or None when Popen raises
PopenOutcomes == {None} \cup (IF FreshPids = {} THEN {} ELSE {Min(FreshPids)})

Alive(p) == p # None /\ procs[p] = "alive"

\* the process table forgets a dead process that no handle refers to
Reap(table, registry, temp) ==
    [p \in PIDs |->
        IF table[p] \in {"exited", "killed"} /\ p # temp
                                              /\ \A w \in Worlds : registry[w].pid # p
        THEN "unused"
        ELSE table[p]]

\* taskkill /F /T /PID pid with check=True: "ok" kills, "fail" raises CalledProcessError
TaskkillOutcomes(p) == IF Alive(p) THEN {"ok", "fail"} ELSE {"fail"}

\* the return of start(): the finally clause finds _temp_process = None
ResultAt(nextpc) == IF nextpc = "done" THEN "returned" ELSE "running"

\* ----------------------------------------------- _build_server_command
\* A command is the sequence of its space-separated parts; a part is its
\* option text, the world it names (None for none) and, for -mods=, the
\* comma-separated mod ids.
NoCommand == <<>>
Part(opt, w, ids) == [opt |-> opt, world |-> w, ids |-> ids]

\* _get_extra_params
GetExtraParams ==
    (IF ~beOpen THEN <<Part("-NoBattlEye", None, <<>>)>> ELSE <<>>) \o
    (IF clusterOpen
     THEN <<Part("-ClusterID=", None, <<>>), Part("-ClusterDirOverride=", None, <<>>)>>
     ELSE <<>>)

IsOpenMod(m) == modEntries[m]

\* [mod_id for mod_id, mod_data in ins_mods_setting.get_all().items() if mod_data["open"]]
OpenModList == SelectSeq(ModOrder, IsOpenMod)

\* _get_mods_params without its test of mods_open
GetModsParams_NoSwitch ==
    IF OpenModList = <<>> THEN <<>> ELSE <<Part("-mods=", None, OpenModList)>>

\* _get_mods_params
GetModsParams ==
    IF ~modsOpen THEN <<>>
    ELSE IF OpenModList = <<>> THEN <<>>
    ELSE <<Part("-mods=", None, OpenModList)>>

\* the states of the [ServerSettings] section of a profile file
SectionStates == {"absent", "empty", "params"}

\* _get_world_config without its test that the profile file exists
ProfileFound_Always(w) == TRUE

\* _get_world_config: os.path.exists(file_path); FileNotFoundError when false
ProfileFound(w) == profileExists[w]

\* _get_world_config for a profile file that exists: the k=v items of its
\* [ServerSettings] section joined by "?", the empty string when the section
\* has no items and also, after a warning, when the file has no such section
GetWorldConfig(w) == IF serverSettings[w] = "params" THEN <<"k=v">> ELSE <<>>

\* _build_server_command for a world whose profile exists; the ids of the
\* "?listen?" part are the world parameters
BuildServerCommand(w) ==
    <<Part("ArkAscendedServer.exe", None, <<>>), Part("?listen?", w, GetWorldConfig(w))>>
        \o GetExtraParams \o GetModsParams \o <<Part("-log=", w, <<>>)>>

\* what a call of _build_server_command hands back: nothing when
\* _get_world_config raised
BuildCall(w) == IF ProfileFound(w) THEN BuildServerCommand(w) ELSE NoCommand

\* ------------------------------------------- _write_game_user_settings
\* GameUserSettings.ini as the server generates it on its first run
GeneratedIni ==
    [parsable |-> TRUE,
     secs |-> {"ServerSettings"},
     kv |-> [s \in Sections |->
               IF s = "ServerSettings" THEN [EmptyBody EXCEPT !["Message"] = "b"]
               ELSE EmptyBody]]

\* no file
NoIni == [parsable |-> TRUE, secs |-> {}, kv |-> [s \in Sections |-> EmptyBody]]

\* a profile with the three kinds of section; ConfigParser() lower-cases its keys
DefaultProfile ==
    [secs |-> Sections,
     kv |-> [s \in Sections |-> [EmptyBody EXCEPT !["message"] = "a"]]]

\* the profile sections the merge takes: not a tip section, not
\* ServerSettings, not empty
MergedSections(prof) ==
    {s \in prof.secs : /\ s \notin TipSections
                       /\ s # "ServerSettings"
                       /\ prof.kv[s] # EmptyBody}

\* a merge that replaces a section by the profile's section
Merge_ReplaceSection(file, prof) ==
    [file EXCEPT !.secs = file.secs \cup MergedSections(prof),
                 !.kv = [s \in Sections |->
                           IF s \in MergedSections(prof) THEN prof.kv[s] ELSE file.kv[s]]]

\* add_section when missing; config[section_name][key] = value for each key
Merge(file, prof) ==
    [file EXCEPT !.secs = file.secs \cup MergedSections(prof),
                 !.kv = [s \in Sections |-> [k \in Keys |->
                           IF s \in MergedSections(prof) /\ prof.kv[s][k] # NoValue
                           THEN prof.kv[s][k]
                           ELSE file.kv[s][k]]]]

\* the GameUserSettings.ini half of _write_game_user_settings: the file
\* after the call and the number of writes of the file; a missing file is
\* left alone, and a file that cannot be read raises before the write
WriteGameUserSettings(exists, file, prof) ==
    IF exists /\ file.parsable
    THEN [file |-> Merge(file, prof), writes |-> 1]
    ELSE [file |-> file, writes |-> 0]

\* the state of OpenServer and of the run before start() is called
RunInit ==
    /\ procs = [p \in PIDs |-> "unused"]
    /\ processes = [w \in Worlds |-> NoHandle]
    /\ temp_process = None
    /\ pc = "idle"
    /\ result = "running"
    /\ attempt = 0
    /\ polls = 0
    /\ cur = 0
    /\ retry_count = 0
    /\ last_log_size = 0
    /\ new_content = <<>>
    /\ settingsRet = "none"
    /\ modsRet = "none"
    /\ tempLaunched = {}
    /\ leaked = {}
    /\ cleanupTiers = NoTiers
    /\ outcome = [w \in Worlds |-> "none"]
    /\ launchOrder = <<>>
    /\ writeOrder = <<>>
    /\ lastSleep = "none"
    /\ hardFails = 0
    /\ countBefore = 0
    /\ lastFail = "none"
    /\ totalRead = <<>>
    /\ modsChecked = FALSE
    /\ bootMods = {}
    /\ windows = 0
    /\ stopCall = [arg |-> None, result |-> "none"]
    /\ mergeCalls = 0
    /\ lastWrites = 0
    /\ command = NoCommand
    /\ built = None

Init ==
    /\ exeExists \in BOOLEAN
    /\ worldOpen \in [Worlds -> BOOLEAN]
    /\ profileExists \in {f \in [Worlds -> BOOLEAN] : \A w \in Worlds : ~worldOpen[w] => f[w]}
    /\ modsOpen \in BOOLEAN
    /\ modEntries \in {f \in [ModIds -> BOOLEAN] : \A m \in ModIds \ RunModIds : ~f[m]}
    /\ beOpen = TRUE
    /\ clusterOpen = FALSE
    /\ serverSettings = [w \in Worlds |-> "params"]
    /\ worldSet = DefaultWorldSet
    /\ ui = NoUi
    /\ worldTable = NoTable
    /\ modsCheck = NoModsCheck
    /\ settingsFile \in BOOLEAN
    /\ modsDir \in {d \in SUBSET ModIds : d \subseteq {m \in ModIds : modsOpen /\ modEntries[m]}}
    /\ logExists = FALSE
    /\ log = <<>>
    /\ profile = DefaultProfile
    /\ iniFile = (IF settingsFile THEN GeneratedIni ELSE NoIni)
    /\ RunInit

\* ---------------------------------------------- _cleanup_temp_server
\* The outcomes of the two termination tiers: the psutil process-tree
\* terminate ("ok", "nosuch" for psutil.NoSuchProcess, "exc" for any other
\* exception) and taskkill ("ok", "fail"); "skip" is a tier not attempted.
\* the cleanup trying taskkill whatever psutil did
TierOutcomes_AlwaysTaskkill ==
    IF temp_process = None THEN {<<"skip", "skip">>}
    ELSE IF ~Alive(temp_process) THEN {<<"nosuch", "fail">>}
    ELSE {<<"ok", "fail">>, <<"exc", "ok">>, <<"exc", "fail">>}

TierOutcomes ==
    IF temp_process = None THEN {<<"skip", "skip">>}
    ELSE IF ~Alive(temp_process) THEN {<<"nosuch", "skip">>}
    ELSE {<<"ok", "skip">>, <<"exc", "ok">>, <<"exc", "fail">>}

\* the cleanup with its taskkill tier ineffective
CleanupProcs_NoTaskkill(t) ==
    IF temp_process # None /\ t[1] = "ok"
    THEN [procs EXCEPT ![temp_process] = "killed"]
    ELSE procs

CleanupProcs(t) ==
    IF temp_process # None /\ (t[1] = "ok" \/ (t[1] = "exc" /\ t[2] = "ok"))
    THEN [procs EXCEPT ![temp_process] = "killed"]
    ELSE procs

CleanupLeaked(t) ==
    IF temp_process # None /\ t = <<"exc", "fail">>
    THEN leaked \cup {temp_process}
    ELSE leaked

CleanupTempServer(t) ==
    /\ procs' = CleanupProcs(t)
    /\ leaked' = CleanupLeaked(t)
    /\ cleanupTiers' = t
    /\ temp_process' = None

\* ------------------------------------------------ _launch_temp_server
LaunchTempServer(w, p) ==
    /\ processes' = [processes EXCEPT ![w] = [kind |-> "popen", pid |-> p]]
    /\ temp_process' = p
    /\ procs' = Reap([procs EXCEPT ![p] = "alive"], processes', temp_process')

\* ------------------------------------------------------------ start()
\* if not cls._ensure_game_user_settings(): return
AfterSettings(ok) == IF ok THEN "mods" ELSE "done"

\* start() going on to the worlds whatever the mods phase returned
AfterMods_Ignored(ok) == "worlds"

\* if not cls._ensure_all_mods_downloaded(): return
AfterMods(ok) == IF ok THEN "worlds" ELSE "done"

Start ==
    /\ pc = "idle"
    /\ pc' = IF exeExists THEN "settings" ELSE "done"
    /\ result' = ResultAt(pc')
    /\ UNCHANGED <<config, stopCall, command, built, mergeHist, bootHist, files, procs, processes, temp_process, attempt, polls,
                   monitorLocals, monitorHist, settingsRet, modsRet, tempLaunched,
                   leaked, cleanupTiers, lastSleep>>

\* an exception leaves start() through its finally clause
Raise ==
    /\ pc' = "done"
    /\ result' = "raised"

\* ------------------------------------------ _ensure_game_user_settings
EnsureSettingsBegin ==
    /\ pc = "settings"
    /\ UNCHANGED <<config, stopCall, mergeHist, bootHist, files, attempt, monitorLocals, monitorHist, modsRet,
                   leaked, cleanupTiers, lastSleep>>
    /\ polls' = 0
    /\ command' = IF ~settingsFile /\ FirstEnabledWorld # None
                  THEN BuildCall(FirstEnabledWorld)
                  ELSE command
    /\ built' = IF ~settingsFile /\ FirstEnabledWorld # None
                THEN FirstEnabledWorld
                ELSE built
    /\ IF settingsFile
       THEN /\ settingsRet' = "true"
            /\ pc' = AfterSettings(TRUE)
            /\ result' = ResultAt(pc')
            /\ UNCHANGED <<procs, processes, temp_process, tempLaunched>>
       ELSE IF FirstEnabledWorld = None
       THEN /\ settingsRet' = "false"
            /\ pc' = AfterSettings(FALSE)
            /\ result' = ResultAt(pc')
            /\ UNCHANGED <<procs, processes, temp_process, tempLaunched>>
       ELSE IF ~ProfileFound(FirstEnabledWorld)
       THEN /\ settingsRet' = "raised"
            /\ Raise
            /\ UNCHANGED <<procs, processes, temp_process, tempLaunched>>
       ELSE \E p \in PopenOutcomes :
              IF p = None
              THEN /\ settingsRet' = "raised"
                   /\ Raise
                   /\ UNCHANGED <<procs, processes, temp_process, tempLaunched>>
              ELSE /\ LaunchTempServer(FirstEnabledWorld, p)
                   /\ tempLaunched' = {p}
                   /\ settingsRet' = "none"
                   /\ pc' = "S_wait"
                   /\ result' = "running"

SettingsPoll ==
    /\ pc = "S_wait"
    /\ UNCHANGED <<config, stopCall, command, built, mergeHist, modsChecked, bootMods, files, attempt, monitorLocals, monitorHist, modsRet>>
    /\ windows' = IF ~settingsFile /\ polls >= MaxPolls THEN windows + 1 ELSE windows
    /\ IF settingsFile
       THEN \E t \in TierOutcomes :
              /\ CleanupTempServer(t)
              /\ settingsRet' = "true"
              /\ pc' = AfterSettings(TRUE)
              /\ result' = ResultAt(pc')
              /\ UNCHANGED <<processes, polls, tempLaunched, lastSleep>>
       ELSE IF polls >= MaxPolls
       THEN \E t \in TierOutcomes :
              /\ CleanupTempServer(t)
              /\ settingsRet' = "false"
              /\ pc' = AfterSettings(FALSE)
              /\ result' = ResultAt(pc')
              /\ UNCHANGED <<processes, polls, tempLaunched, lastSleep>>
       ELSE IF ~Alive(temp_process)
       THEN \E p \in PopenOutcomes :
              IF p = None
              THEN \E t \in TierOutcomes :
                     /\ CleanupTempServer(t)
                     /\ settingsRet' = "raised"
                     /\ Raise
                     /\ UNCHANGED <<processes, polls, tempLaunched, lastSleep>>
              ELSE /\ LaunchTempServer(FirstEnabledWorld, p)
                   /\ tempLaunched' = tempLaunched \cup {p}
                   /\ polls' = 1
                   /\ UNCHANGED <<pc, result, settingsRet, leaked, cleanupTiers, lastSleep>>
       ELSE /\ polls' = polls + 1
            /\ UNCHANGED <<procs, processes, temp_process, pc, result, settingsRet,
                           tempLaunched, leaked, cleanupTiers, lastSleep>>

\* ------------------------------------------ _ensure_all_mods_downloaded
EnsureModsBegin ==
    /\ pc = "mods"
    /\ UNCHANGED <<config, stopCall, mergeHist, files, procs, processes, temp_process, monitorLocals,
                   monitorHist, settingsRet, leaked, lastSleep>>
    /\ cleanupTiers' = NoTiers
    /\ attempt' = 0
    /\ windows' = 0
    /\ modsChecked' = (modsOpen /\ EnabledMods # {})
    /\ bootMods' = (IF modsOpen THEN EnabledMods ELSE {})
    /\ polls' = 0
    /\ command' = IF /\ modsOpen
                     /\ EnabledMods # {}
                     /\ ~AllModsDownloaded
                     /\ FirstEnabledWorld # None
                  THEN BuildCall(FirstEnabledWorld)
                  ELSE command
    /\ built' = IF /\ modsOpen
                   /\ EnabledMods # {}
                   /\ ~AllModsDownloaded
                   /\ FirstEnabledWorld # None
                THEN FirstEnabledWorld
                ELSE built
    /\ tempLaunched' = {}
    /\ IF ~modsOpen \/ EnabledMods = {} \/ AllModsDownloaded
       THEN /\ modsRet' = "true"
            /\ pc' = AfterMods(TRUE)
            /\ result' = ResultAt(pc')
       ELSE IF FirstEnabledWorld = None
       THEN /\ modsRet' = "false"
            /\ pc' = AfterMods(FALSE)
            /\ result' = ResultAt(pc')
       ELSE IF ~ProfileFound(FirstEnabledWorld)
       THEN /\ modsRet' = "raised"
            /\ Raise
       ELSE /\ modsRet' = "none"
            /\ pc' = "M_attempt"
            /\ result' = "running"

\* while attempt < cls._max_retry_attempts
AttemptsLeft(a) == a < max_retry_attempts

\* an attempt charged twice
NextAttempt_Twice(a) == a + 2

\* attempt += 1
NextAttempt(a) == a + 1

ModsAttempt ==
    /\ pc = "M_attempt"
    /\ UNCHANGED <<config, stopCall, command, built, mergeHist, bootHist, files, monitorLocals, monitorHist, settingsRet,
                   lastSleep>>
    /\ polls' = 0
    /\ IF AttemptsLeft(attempt)
       THEN /\ attempt' = NextAttempt(attempt)
            /\ cleanupTiers' = NoTiers
            /\ UNCHANGED leaked
            /\ \E p \in PopenOutcomes :
                 IF p = None
                 THEN /\ modsRet' = "raised"
                      /\ Raise
                      /\ UNCHANGED <<procs, processes, temp_process, tempLaunched>>
                 ELSE /\ LaunchTempServer(FirstEnabledWorld, p)
                      /\ tempLaunched' = tempLaunched \cup {p}
                      /\ pc' = "M_wait"
                      /\ UNCHANGED <<result, modsRet>>
       ELSE \E t \in TierOutcomes :
              /\ CleanupTempServer(t)
              /\ modsRet' = "false"
              /\ pc' = AfterMods(FALSE)
              /\ result' = ResultAt(pc')
              /\ UNCHANGED <<processes, tempLaunched, attempt>>

ModsPoll ==
    /\ pc = "M_wait"
    /\ UNCHANGED <<config, stopCall, command, built, mergeHist, files, attempt, monitorLocals, monitorHist, settingsRet>>
    /\ windows' = IF polls >= MaxPolls THEN windows + 1 ELSE windows
    /\ modsChecked' = (modsChecked \/ polls < MaxPolls)
    /\ UNCHANGED bootMods
    /\ IF polls >= MaxPolls
       THEN \E t \in TierOutcomes :
              /\ CleanupTempServer(t)
              /\ pc' = "M_attempt"
              /\ UNCHANGED <<processes, polls, result, modsRet, tempLaunched, lastSleep>>
       ELSE IF AllModsDownloaded
       THEN \E t \in TierOutcomes :
              /\ CleanupTempServer(t)
              /\ modsRet' = "true"
              /\ pc' = AfterMods(TRUE)
              /\ result' = ResultAt(pc')
              /\ UNCHANGED <<processes, polls, tempLaunched, lastSleep>>
       ELSE IF ~Alive(temp_process)
       THEN \E p \in PopenOutcomes :
              IF p = None
              THEN \E t \in TierOutcomes :
                     /\ CleanupTempServer(t)
                     /\ modsRet' = "raised"
                     /\ Raise
                     /\ UNCHANGED <<processes, polls, tempLaunched, lastSleep>>
              ELSE /\ LaunchTempServer(FirstEnabledWorld, p)
                   /\ tempLaunched' = tempLaunched \cup {p}
                   /\ polls' = 1
                   /\ UNCHANGED <<pc, result, modsRet, leaked, cleanupTiers, lastSleep>>
       ELSE /\ polls' = polls + 1
            /\ UNCHANGED <<procs, processes, temp_process, pc, result, modsRet,
                           tempLaunched, leaked, cleanupTiers, lastSleep>>

\* --------------------------------------------------- _start_all_worlds
\* the for loop without its test of world_data["open"]
NextEnabledWorld_AnyWorld(c) == IF c < NumWorlds THEN c + 1 ELSE None

\* for world_id, world_data in all_worlds.items(): if not world_data["open"]: continue
NextEnabledWorld(c) ==
    IF \E w \in Worlds : w > c /\ worldOpen[w]
    THEN Min({w \in Worlds : w > c /\ worldOpen[w]})
    ELSE None

\* the for loop without its break
AfterWorld_NoBreak(success) == "worlds"

\* success = _launch_and_monitor_server(...); if not success: break
AfterWorld(success) == IF success THEN "worlds" ELSE "done"

\* log_file.unlink(missing_ok=True): "ok", or "raise" for a file that exists
\* and cannot be removed (still held open by a process that survived its kill)
UnlinkOutcomes == IF logExists THEN {"ok", "raise"} ELSE {"ok"}

\* an unlink that leaves the file as it is
UnlinkLog_Kept(exists, content) == [exists |-> exists, content |-> content]

\* the log file after log_file.unlink(missing_ok=True)
UnlinkLog(exists, content) == [exists |-> FALSE, content |-> <<>>]

\* One pass of the for loop up to the call of _launch_and_monitor_server and
\* that call's prologue (its locals, the removal of the world's log file).
WorldNext ==
    /\ pc = "worlds"
    /\ UNCHANGED <<config, stopCall, modsChecked, bootMods, settingsFile, modsDir, procs, processes, temp_process,
                   settingsRet, modsRet, leaked, outcome, launchOrder, lastSleep>>
    /\ cleanupTiers' = NoTiers
    /\ attempt' = 0
    /\ windows' = 0
    /\ polls' = 0
    /\ tempLaunched' = {}
    /\ retry_count' = 0
    /\ last_log_size' = 0
    /\ new_content' = <<>>
    /\ hardFails' = 0
    /\ countBefore' = 0
    /\ lastFail' = "none"
    /\ totalRead' = <<>>
    /\ LET w == NextEnabledWorld(cur) IN
       IF w = None
       THEN /\ pc' = "done"
            /\ result' = "returned"
            /\ UNCHANGED <<cur, writeOrder, logExists, log, iniFile, mergeHist, command, built>>
       ELSE IF ~ProfileFound(w)
       THEN /\ Raise
            /\ command' = BuildCall(w)
            /\ built' = w
            /\ UNCHANGED <<cur, writeOrder, logExists, log, iniFile, mergeHist>>
       ELSE /\ cur' = w
            /\ command' = BuildCall(w)
            /\ built' = w
            /\ writeOrder' = Append(writeOrder, w)
            /\ iniFile' = WriteGameUserSettings(settingsFile, iniFile, profile).file
            /\ lastWrites' = WriteGameUserSettings(settingsFile, iniFile, profile).writes
            /\ mergeCalls' = mergeCalls + 1
            /\ logExists' = UnlinkLog(logExists, log).exists
            /\ log' = UnlinkLog(logExists, log).content
            /\ pc' = "L_loop"
            /\ result' = "running"

\* --------------------------------------------- _launch_and_monitor_server
\* the loop test off by one
LoopContinues_OffByOne(rc) == rc <= max_retries

\* while retry_count < max_retries and not server_ready
LoopContinues(rc) == rc < max_retries

\* any(pattern in new_content for pattern in ready_patterns): the text holds
\* the pattern, written at once or as its two pieces one after the other
HasReady(text) ==
    \E i \in 1..Len(text) :
        \/ text[i] = "Ready"
        \/ i < Len(text) /\ text[i] = "Rea" /\ text[i + 1] = "dy"

\* any(error_pattern in new_content for error_pattern in error_patterns)
HasError(text) == \E i \in 1..Len(text) : text[i] = "Error"

\* a read that starts at the beginning of the file on every poll
ReadNew_FromStart(content, offset) == content

\* f.seek(last_log_size); new_content = f.read()
ReadNew(content, offset) == SubSeq(content, offset + 1, Len(content))

\* the ready test comes first, the error test second
Verdict(text) ==
    IF HasReady(text) THEN "Ready"
    ELSE IF HasError(text) THEN "Failed"
    ELSE "Continue"

\* except RuntimeError: if "Mod service error" in str(e): retry_count -= 1
AfterTransient(rc) == rc - 1

\* except Exception: the attempt is over before a process is registered
LaunchException ==
    /\ processes' = [processes EXCEPT ![cur] = NoHandle]
    /\ procs' = Reap(procs, processes', temp_process)
    /\ hardFails' = hardFails + 1
    /\ lastFail' = "launch_exc"
    /\ UNCHANGED <<pc, result, launchOrder>>

LaunchAttempt ==
    /\ pc = "L_loop"
    /\ UNCHANGED <<config, stopCall, command, built, mergeHist, bootHist, settingsFile, iniFile, modsDir, temp_process, attempt, cur,
                   settingsRet, modsRet, tempLaunched, leaked, cleanupTiers, writeOrder>>
    /\ polls' = 0
    /\ last_log_size' = 0
    /\ new_content' = <<>>
    /\ totalRead' = <<>>
    /\ IF LoopContinues(retry_count)
       THEN /\ countBefore' = retry_count
            /\ retry_count' = retry_count + 1
            /\ lastSleep' = IF retry_count' > 1 THEN "restart" ELSE lastSleep
            /\ UNCHANGED outcome
            /\ \E u \in UnlinkOutcomes, p \in PopenOutcomes :
                 IF u = "raise"
                 THEN /\ LaunchException
                      /\ UNCHANGED <<logExists, log>>
                 ELSE /\ logExists' = UnlinkLog(logExists, log).exists
                      /\ log' = UnlinkLog(logExists, log).content
                      /\ IF p = None
                         THEN LaunchException
                         ELSE /\ processes' = [processes EXCEPT ![cur] = [kind |-> "pid", pid |-> p]]
                              /\ procs' = Reap([procs EXCEPT ![p] = "alive"], processes', temp_process)
                              /\ launchOrder' = IF \E i \in 1..Len(launchOrder) : launchOrder[i] = cur
                                                THEN launchOrder
                                                ELSE Append(launchOrder, cur)
                              /\ lastFail' = "none"
                              /\ pc' = "L_wait"
                              /\ UNCHANGED <<result, hardFails>>
       ELSE /\ outcome' = [outcome EXCEPT ![cur] = "Failed"]
            /\ pc' = AfterWorld(FALSE)
            /\ result' = ResultAt(pc')
            /\ UNCHANGED <<procs, processes, logExists, log, retry_count, launchOrder,
                           lastSleep, hardFails, countBefore, lastFail>>

\* lines 428-436: the attempt timed out or its process is gone
KillAfterFailure(kind) ==
    /\ IF processes[cur].kind # "none"
       THEN \E k \in TaskkillOutcomes(processes[cur].pid) :
              procs' = IF k = "ok"
                       THEN [procs EXCEPT ![processes[cur].pid] = "killed"]
                       ELSE procs
       ELSE UNCHANGED procs
    /\ hardFails' = hardFails + 1
    /\ lastFail' = kind
    /\ pc' = "L_loop"
    /\ UNCHANGED <<processes, result, polls, retry_count, last_log_size, new_content,
                   outcome, lastSleep, totalRead>>

\* time.sleep(check_interval)
MonitorSleep ==
    /\ polls' = polls + 1
    /\ lastSleep' = "monitor_poll"
    /\ pc' = "L_wait"
    /\ UNCHANGED <<procs, processes, result, retry_count, outcome, hardFails,
                   lastFail>>

\* one pass of the monitoring loop, from the test of its condition on
MonitorBody ==
    /\ UNCHANGED <<config, stopCall, command, built, mergeHist, bootHist, files, temp_process, attempt, cur, settingsRet, modsRet,
                   tempLaunched, leaked, cleanupTiers, launchOrder, writeOrder, countBefore>>
    /\ IF polls >= MaxPolls
       THEN KillAfterFailure("timeout")
       ELSE IF processes[cur].kind = "none" \/ ~Alive(processes[cur].pid)
       THEN KillAfterFailure("exited")
       ELSE IF ~logExists
       THEN MonitorSleep /\ UNCHANGED <<last_log_size, new_content, totalRead>>
       ELSE \E rd \in {"ok", "err"} :
              IF rd = "err"
              THEN MonitorSleep /\ UNCHANGED <<last_log_size, new_content, totalRead>>
              ELSE LET text == ReadNew(log, last_log_size) IN
                   /\ new_content' = text
                   /\ last_log_size' = Len(log)
                   /\ totalRead' = totalRead \o text
                   /\ IF Verdict(text) = "Ready"
                      THEN /\ outcome' = [outcome EXCEPT ![cur] = "Ready"]
                           /\ pc' = AfterWorld(TRUE)
                           /\ result' = ResultAt(pc')
                           /\ UNCHANGED <<procs, processes, polls, retry_count, lastSleep,
                                          hardFails, lastFail>>
                      ELSE IF Verdict(text) = "Failed"
                      THEN \E k \in TaskkillOutcomes(processes[cur].pid) :
                             /\ processes' = [processes EXCEPT ![cur] = NoHandle]
                             /\ pc' = "L_loop"
                             /\ UNCHANGED <<result, polls, outcome, lastSleep>>
                             /\ IF k = "ok"
                                THEN /\ procs' = Reap([procs EXCEPT ![processes[cur].pid] = "killed"],
                                                     processes', temp_process)
                                     /\ retry_count' = AfterTransient(retry_count)
                                     /\ lastFail' = "transient"
                                     /\ UNCHANGED hardFails
                                ELSE /\ hardFails' = hardFails + 1
                                     /\ lastFail' = "transient_killfail"
                                     /\ UNCHANGED <<procs, retry_count>>
                      ELSE MonitorSleep

MonitorPoll ==
    /\ pc = "L_wait"
    /\ MonitorBody

\* ------------------------------------------------------ environment
\* a watched server process exits on its own
ProcExit ==
    \E p \in PIDs :
      /\ Alive(p)
      /\ \/ pc \in {"S_wait", "M_wait"} /\ p = temp_process
         \/ pc = "L_wait" /\ p = processes[cur].pid
      /\ procs' = [procs EXCEPT ![p] = "exited"]
      /\ UNCHANGED <<config, stopCall, command, built, mergeHist, bootHist, files, processes, temp_process, pc, result, attempt, polls,
                     monitorLocals, monitorHist, settingsRet, modsRet, tempLaunched,
                     leaked, cleanupTiers, lastSleep>>

\* the temp server writes GameUserSettings.ini on its first run
GenerateSettingsFile ==
    /\ Alive(temp_process)
    /\ ~settingsFile
    /\ settingsFile' = TRUE
    /\ iniFile' = GeneratedIni
    /\ UNCHANGED <<config, stopCall, command, built, mergeHist, bootHist, modsDir, logExists, log, procs, processes, temp_process, pc,
                   result, attempt, polls, monitorLocals, monitorHist, settingsRet,
                   modsRet, tempLaunched, leaked, cleanupTiers, lastSleep>>

\* the temp server downloads an enabled mod named on its command line
DownloadMod ==
    \E m \in EnabledMods \ modsDir :
      /\ Alive(temp_process)
      /\ modsOpen
      /\ modsDir' = modsDir \cup {m}
      /\ UNCHANGED <<config, stopCall, command, built, mergeHist, bootHist, settingsFile, iniFile, logExists, log, procs, processes,
                     temp_process, pc, result, attempt, polls, monitorLocals,
                     monitorHist, settingsRet, modsRet, tempLaunched, leaked, cleanupTiers, lastSleep>>

\* the server of the world being launched appends to its log file
LogAppendOf(pieces) ==
    \E c \in pieces :
      /\ pc = "L_wait"
      /\ Alive(processes[cur].pid)
      /\ Len(log) < MaxLog
      /\ log' = Append(log, c)
      /\ logExists' = TRUE
      /\ UNCHANGED <<config, stopCall, command, built, mergeHist, bootHist, settingsFile, iniFile, modsDir, procs, processes, temp_process, pc,
                     result, attempt, polls, monitorLocals, monitorHist, settingsRet,
                     modsRet, tempLaunched, leaked, cleanupTiers, lastSleep>>

LogAppend == LogAppendOf(Fragments)

Next ==
    \/ Start
    \/ EnsureSettingsBegin
    \/ SettingsPoll
    \/ EnsureModsBegin
    \/ ModsAttempt
    \/ ModsPoll
    \/ WorldNext
    \/ LaunchAttempt
    \/ MonitorPoll
    \/ ProcExit
    \/ GenerateSettingsFile
    \/ DownloadMod
    \/ LogAppend

Spec == Init /\ [][Next]_vars

\* ------------------------------------------------------------- stop()
\* process.terminate(); process.wait(timeout=10), then process.kill(): how
\* _terminate_process ends for a Popen object ("terminated", "killed", or
\* "failed" when both calls raise), and for the {"pid": n} record of a real
\* launch, which has none of the methods nor the attribute pid that the
\* last handler's log line reads: "raises" (AttributeError)
TerminateOutcomes(h) ==
    IF h.kind = "pid" THEN {"raises"}
    ELSE IF Alive(h.pid) THEN {"terminated", "killed", "failed"}
    ELSE {"terminated"}

\* stop(world_id), called between runs
Stop(w) ==
    /\ pc = "done"
    /\ UNCHANGED <<config, files, command, built, mergeHist, temp_process, pc, result, attempt, polls, monitorLocals,
                   monitorHist, settingsRet, modsRet, tempLaunched, leaked, cleanupTiers, lastSleep,
                   bootHist>>
    /\ IF processes[w].kind = "none"
       THEN /\ stopCall' = [arg |-> w, result |-> "returned"]
            /\ UNCHANGED <<procs, processes>>
       ELSE \E o \in TerminateOutcomes(processes[w]) :
              IF o = "raises"
              THEN /\ stopCall' = [arg |-> w, result |-> "raised"]
                   /\ UNCHANGED <<procs, processes>>
              ELSE /\ stopCall' = [arg |-> w, result |-> "returned"]
                   /\ procs' = IF o \in {"terminated", "killed"} /\ Alive(processes[w].pid)
                               THEN [procs EXCEPT ![processes[w].pid] = "killed"]
                               ELSE procs
                   /\ processes' = [processes EXCEPT ![w] = NoHandle]

\* stop() with no argument, called between runs: the handles are gone
\* through in registry order, and an exception leaves the loop before clear()
StopAll ==
    /\ pc = "done"
    /\ UNCHANGED <<config, files, command, built, mergeHist, temp_process, pc, result, attempt, polls, monitorLocals,
                   monitorHist, settingsRet, modsRet, tempLaunched, leaked, cleanupTiers, lastSleep,
                   bootHist>>
    /\ \E o \in [Worlds -> {"terminated", "killed", "failed", "raises", "absent"}] :
         /\ \A w \in Worlds :
               o[w] \in (IF processes[w].kind = "none" THEN {"absent"}
                         ELSE TerminateOutcomes(processes[w]))
         /\ LET last == Min({w \in Worlds : o[w] = "raises"} \cup {NumWorlds + 1}) IN
            /\ procs' = [p \in PIDs |->
                           IF \E w \in Worlds : /\ w < last
                                                /\ processes[w].pid = p
                                                /\ o[w] \in {"terminated", "killed"}
                                                /\ Alive(p)
                           THEN "killed"
                           ELSE procs[p]]
            /\ IF last <= NumWorlds
               THEN /\ stopCall' = [arg |-> None, result |-> "raised"]
                    /\ UNCHANGED processes
               ELSE /\ stopCall' = [arg |-> None, result |-> "returned"]
                    /\ processes' = [w \in Worlds |-> NoHandle]

StopNext ==
    \/ Next
    \/ \E w \in Worlds : Stop(w)
    \/ StopAll

\* a run of start() followed by calls of stop()
StopSpec == Init /\ [][StopNext]_vars

\* ------------------------------------ stop(world_id) during a run
\* stop(world_id) called from another thread while start() runs. Nothing
\* serialises the two threads, so the steps of stop (its membership test and
\* _terminate_process, then its del) and the steps of the monitoring loop
\* (the membership test of line 385, then the read of the entry) interleave.
\* stopCall.result is "terminating" between the two steps of stop.
StopBegin(w) ==
    /\ pc \notin {"idle", "done"}
    /\ stopCall.result # "terminating"
    /\ UNCHANGED <<config, files, command, built, mergeHist, temp_process, pc, result, attempt, polls, monitorLocals,
                   monitorHist, settingsRet, modsRet, tempLaunched, leaked, cleanupTiers, lastSleep,
                   bootHist, processes>>
    /\ IF processes[w].kind = "none"
       THEN /\ stopCall' = [arg |-> w, result |-> "returned"]
            /\ UNCHANGED procs
       ELSE \E o \in TerminateOutcomes(processes[w]) :
              IF o = "raises"
              THEN /\ stopCall' = [arg |-> w, result |-> "raised"]
                   /\ UNCHANGED procs
              ELSE /\ stopCall' = [arg |-> w, result |-> "terminating"]
                   /\ procs' = IF o \in {"terminated", "killed"} /\ Alive(processes[w].pid)
                               THEN [procs EXCEPT ![processes[w].pid] = "killed"]
                               ELSE procs

\* del cls._processes[world_id], whatever the entry holds by now
StopDel ==
    /\ stopCall.result = "terminating"
    /\ UNCHANGED <<config, files, command, built, mergeHist, temp_process, pc, result, attempt, polls, monitorLocals,
                   monitorHist, settingsRet, modsRet, tempLaunched, leaked, cleanupTiers, lastSleep,
                   bootHist, procs>>
    /\ IF processes[stopCall.arg].kind = "none"
       THEN /\ stopCall' = [arg |-> stopCall.arg, result |-> "KeyError"]
            /\ UNCHANGED processes
       ELSE /\ stopCall' = [arg |-> stopCall.arg, result |-> "returned"]
            /\ processes' = [processes EXCEPT ![stopCall.arg] = NoHandle]

\* line 385, first half: world_id not in cls._processes is false
MonitorTest ==
    /\ pc = "L_wait"
    /\ polls < MaxPolls
    /\ processes[cur].kind # "none"
    /\ pc' = "L_read"
    /\ UNCHANGED <<config, stopCall, command, built, mergeHist, bootHist, files, procs, processes, temp_process, result,
                   attempt, polls, monitorLocals, monitorHist, settingsRet, modsRet,
                   tempLaunched, leaked, cleanupTiers, lastSleep>>

\* line 385, second half: cls._processes[world_id]["pid"] is read; a missing
\* key raises KeyError, which except Exception (line 443) turns into a
\* failed attempt
MonitorRead ==
    /\ pc = "L_read"
    /\ IF processes[cur].kind = "none"
       THEN /\ pc' = "L_loop"
            /\ hardFails' = hardFails + 1
            /\ lastFail' = "KeyError"
            /\ UNCHANGED <<config, stopCall, command, built, mergeHist, bootHist, files, procs, processes, temp_process,
                           result, attempt, polls, monitorLocals, outcome, launchOrder,
                           writeOrder, countBefore, totalRead, settingsRet, modsRet,
                           tempLaunched, leaked, cleanupTiers, lastSleep>>
       ELSE MonitorBody

\* the loop condition is false, or the entry is missing at the test
MonitorNoRead ==
    /\ pc = "L_wait"
    /\ polls >= MaxPolls \/ processes[cur].kind = "none"
    /\ MonitorBody

\* the runs with the executable there and mods off: the mods phase returns
\* at once and its loop is never entered
ConcurrentInit ==
    /\ Init
    /\ exeExists
    /\ ~modsOpen

ConcurrentNext ==
    \/ Start
    \/ EnsureSettingsBegin
    \/ SettingsPoll
    \/ EnsureModsBegin
    \/ WorldNext
    \/ LaunchAttempt
    \/ MonitorTest
    \/ MonitorRead
    \/ MonitorNoRead
    \/ ProcExit
    \/ GenerateSettingsFile
    \/ LogAppend
    \/ \E w \in Worlds : StopBegin(w)
    \/ StopDel

\* a run of start() with calls of stop(world_id) from another thread
ConcurrentSpec == ConcurrentInit /\ [][ConcurrentNext]_vars

\* ------------------------------- the mod list saved during a run
\* __on_save_mods of the mods tab, run by the UI thread while the worker
\* thread is in _start_all_worlds: the stored mod list is rewritten with the
\* check boxes of the table; here one entry changes its open flag.
SaveMods ==
    \E m \in ModIds :
      /\ pc \in {"worlds", "L_loop", "L_wait"}
      /\ modEntries' = [modEntries EXCEPT ![m] = ~modEntries[m]]
      /\ UNCHANGED <<worldSet, ui, worldTable, modsCheck, exeExists, worldOpen, profileExists, serverSettings, modsOpen, profile,
                     beOpen, clusterOpen, stopCall, command, built, mergeHist, bootHist,
                     files, procs, processes, temp_process, pc, result, attempt, polls,
                     monitorLocals, monitorHist, settingsRet, modsRet, tempLaunched,
                     leaked, cleanupTiers, lastSleep>>

EditNext ==
    \/ Next
    \/ SaveMods

\* a run of start() with the mod list edited from the UI thread
EditSpec == Init /\ [][EditNext]_vars

\* the steps of the worker thread that executes start()
Worker ==
    \/ Start
    \/ EnsureSettingsBegin
    \/ SettingsPoll
    \/ EnsureModsBegin
    \/ ModsAttempt
    \/ ModsPoll
    \/ WorldNext
    \/ LaunchAttempt
    \/ MonitorPoll

\* the worker thread keeps running until start() returns; the servers and
\* the files they write are under no obligation
FairSpec == Spec /\ WF_vars(Worker)

\* ------------------------------- _write_game_user_settings on its own
\* the profiles and files the merge is tried on
ProfileBodies == {b \in IniBody : \A k \in Keys \ ProfileKeys : b[k] = NoValue}

Profiles ==
    {[secs |-> S,
      kv |-> [s \in Sections |->
                IF s \notin S THEN EmptyBody
                ELSE IF s = "MessageOfTheDay" THEN b
                ELSE [EmptyBody EXCEPT !["message"] = "a"]]] :
        S \in SUBSET Sections, b \in ProfileBodies}

IniFiles ==
    {[parsable |-> q,
      secs |-> S,
      kv |-> [s \in Sections |->
                IF s \notin S THEN EmptyBody
                ELSE IF s = "MessageOfTheDay" THEN b
                ELSE [EmptyBody EXCEPT !["Message"] = "b"]]] :
        q \in BOOLEAN, S \in SUBSET Sections, b \in IniBody}

MergeInit ==
    /\ exeExists = TRUE
    /\ worldOpen = [w \in Worlds |-> TRUE]
    /\ profileExists = [w \in Worlds |-> TRUE]
    /\ modsOpen = FALSE
    /\ modEntries = [m \in ModIds |-> FALSE]
    /\ beOpen = TRUE
    /\ clusterOpen = FALSE
    /\ serverSettings = [w \in Worlds |-> "params"]
    /\ worldSet = DefaultWorldSet
    /\ ui = NoUi
    /\ worldTable = NoTable
    /\ modsCheck = NoModsCheck
    /\ settingsFile \in BOOLEAN
    /\ iniFile \in (IF settingsFile THEN IniFiles ELSE {NoIni})
    /\ profile \in Profiles
    /\ modsDir = {}
    /\ logExists = FALSE
    /\ log = <<>>
    /\ RunInit

\* one call of _write_game_user_settings
WriteSettingsCall ==
    /\ pc = "idle"
    /\ mergeCalls < MaxCalls
    /\ iniFile' = WriteGameUserSettings(settingsFile, iniFile, profile).file
    /\ lastWrites' = WriteGameUserSettings(settingsFile, iniFile, profile).writes
    /\ mergeCalls' = mergeCalls + 1
    /\ UNCHANGED <<config, command, built, settingsFile, modsDir, logExists, log, procs, processes,
                   temp_process, pc, result, attempt, polls, monitorLocals, monitorHist,
                   settingsRet, modsRet, tempLaunched, leaked, cleanupTiers, lastSleep, bootHist,
                   stopCall>>

MergeNext == WriteSettingsCall

\* calls of _write_game_user_settings in a row, nothing else touching the file
MergeSpec == MergeInit /\ [][MergeNext]_vars

\* ----------------------------------- _build_server_command on its own
CmdInit ==
    /\ exeExists = TRUE
    /\ worldOpen \in [Worlds -> BOOLEAN]
    /\ profileExists \in [Worlds -> BOOLEAN]
    /\ modsOpen \in BOOLEAN
    /\ serverSettings \in [Worlds -> SectionStates]
    /\ worldSet = DefaultWorldSet
    /\ ui = NoUi
    /\ worldTable = NoTable
    /\ modsCheck = NoModsCheck
    /\ modEntries \in [ModIds -> BOOLEAN]
    /\ beOpen \in BOOLEAN
    /\ clusterOpen \in BOOLEAN
    /\ profile = DefaultProfile
    /\ settingsFile = TRUE
    /\ iniFile = GeneratedIni
    /\ modsDir = {}
    /\ logExists = FALSE
    /\ log = <<>>
    /\ RunInit

\* one call of _build_server_command; a missing profile raises and no
\* command is returned
BuildCommandCall(w) ==
    /\ pc = "idle"
    /\ command' = BuildCall(w)
    /\ built' = w
    /\ UNCHANGED <<config, files, mergeHist, procs, processes, temp_process, pc, result,
                   attempt, polls, monitorLocals, monitorHist, settingsRet, modsRet,
                   tempLaunched, leaked, cleanupTiers, lastSleep, bootHist, stopCall>>

CmdNext == \E w \in Worlds : BuildCommandCall(w)

\* calls of _build_server_command under every configuration
CmdSpec == CmdInit /\ [][CmdNext]_vars

\* ------------------------------------ a run with well-behaved servers
\* The end-to-end scenarios: the executable and every profile are there,
\* mods are off, every Popen succeeds, a server stays alive once started,
\* the temp server writes GameUserSettings.ini within the wait window and a
\* real server writes its ready pattern, and no error pattern, before the
\* startup timeout; no attempt of a world fails. What the two termination
\* tiers of _cleanup_temp_server do is left open.
ScenarioInit ==
    /\ exeExists = TRUE
    /\ worldOpen \in [Worlds -> BOOLEAN]
    /\ profileExists = [w \in Worlds |-> TRUE]
    /\ serverSettings = [w \in Worlds |-> "params"]
    /\ worldSet = DefaultWorldSet
    /\ ui = NoUi
    /\ worldTable = NoTable
    /\ modsCheck = NoModsCheck
    /\ modsOpen = FALSE
    /\ modEntries \in {f \in [ModIds -> BOOLEAN] : \A m \in ModIds \ RunModIds : ~f[m]}
    /\ beOpen = TRUE
    /\ clusterOpen = FALSE
    /\ settingsFile \in BOOLEAN
    /\ modsDir = {}
    /\ logExists = FALSE
    /\ log = <<>>
    /\ profile = DefaultProfile
    /\ iniFile = (IF settingsFile THEN GeneratedIni ELSE NoIni)
    /\ RunInit

\* the phase launches its temp server
ScenarioSettingsBegin == EnsureSettingsBegin /\ settingsRet' # "raised"

\* the phase sees the file before the wait window is over
ScenarioSettingsPoll == SettingsPoll /\ settingsRet' \notin {"false", "raised"}

\* the launch of an attempt succeeds
ScenarioLaunchAttempt == LaunchAttempt /\ pc' = "L_wait"

\* the poll ends the attempt only by reading the ready pattern
ScenarioMonitorPoll == MonitorPoll /\ pc' # "L_loop"

\* the server writes other lines and its ready pattern, no error pattern
ScenarioLogAppend == LogAppend /\ ~HasError(log')

ScenarioNext ==
    \/ Start
    \/ ScenarioSettingsBegin
    \/ ScenarioSettingsPoll
    \/ EnsureModsBegin
    \/ WorldNext
    \/ ScenarioLaunchAttempt
    \/ ScenarioMonitorPoll
    \/ GenerateSettingsFile
    \/ ScenarioLogAppend

ScenarioSpec == ScenarioInit /\ [][ScenarioNext]_vars

\* --------------------------------------- a ready pattern written in pieces
\* The runs without bootstrap in which the servers stay alive and write
\* their ready pattern in two steps, with other lines and no error pattern.
SplitInit ==
    /\ ScenarioInit
    /\ settingsFile = TRUE
    /\ modEntries = [m \in ModIds |-> FALSE]

\* the server appends a line or the next piece of its ready pattern
SplitLogAppend == LogAppendOf(SplitFragments)

SplitNext ==
    \/ Start
    \/ EnsureSettingsBegin
    \/ EnsureModsBegin
    \/ WorldNext
    \/ LaunchAttempt
    \/ MonitorPoll
    \/ SplitLogAppend

SplitSpec == SplitInit /\ [][SplitNext]_vars

\* ------------------------------------------- the profile that is merged
\* the sections of the profile file of a name
ProfileFile(name) ==
    IF name = "default" THEN DefaultProfile
    ELSE [secs |-> Sections,
          kv |-> [s \in Sections |-> [EmptyBody EXCEPT !["message"] = "b"]]]

\* The runs without bootstrap in which each world names one of the profiles
\* and the operator selects profiles on the world-config page.
SelectInit ==
    /\ exeExists = TRUE
    /\ worldOpen \in [Worlds -> BOOLEAN]
    /\ profileExists = [w \in Worlds |-> TRUE]
    /\ serverSettings = [w \in Worlds |-> "params"]
    /\ worldSet \in [Worlds -> ProfileNames]
    /\ ui = NoUi
    /\ worldTable = NoTable
    /\ modsCheck = NoModsCheck
    /\ modsOpen = FALSE
    /\ modEntries = [m \in ModIds |-> FALSE]
    /\ beOpen = TRUE
    /\ clusterOpen = FALSE
    /\ settingsFile = TRUE
    /\ modsDir = {}
    /\ logExists = FALSE
    /\ log = <<>>
    /\ profile = ProfileFile("default")
    /\ iniFile = GeneratedIni
    /\ RunInit

\* GameSetting.change_config_path(name): ins_game_setting loads the file
ChangeConfigPath ==
    \E name \in ProfileNames :
        /\ profile' = ProfileFile(name)
        /\ UNCHANGED <<ui, worldTable, modsCheck, worldSet, exeExists, worldOpen, profileExists,
                       serverSettings, modsOpen, modEntries, beOpen, clusterOpen, stopCall,
                       command, built, mergeHist, bootHist, files, procs, processes,
                       temp_process, pc, result, attempt, polls, monitorLocals, monitorHist,
                       settingsRet, modsRet, tempLaunched, leaked, cleanupTiers, lastSleep>>

SelectNext ==
    \/ Start
    \/ EnsureSettingsBegin
    \/ EnsureModsBegin
    \/ WorldNext
    \/ ScenarioLaunchAttempt
    \/ ScenarioMonitorPoll
    \/ ScenarioLogAppend
    \/ ChangeConfigPath

SelectSpec == SelectInit /\ [][SelectNext]_vars

\* ------------------------------ _check_all_mods_downloaded on its own
\* A name is the sequence of its characters.  The names a mods directory may
\* hold: with one underscore, with none, with two, starting with one.
DirNames ==
    {<<"7", "_", "x">>, <<"8", "_", "x">>, <<"7", "8", "_", "x">>,
     <<"7">>, <<"7", "_", "8", "_", "x">>, <<"_", "8">>}

\* the mod ids of ins_mods_setting
ModIdTexts == {<<"7">>, <<"8">>, <<"7", "8">>}

\* an entry of the directory: its name, and whether it is a directory
DirEntries == [name : DirNames, isDir : BOOLEAN]

\* "_" in name
HasUnderscore(name) == \E i \in 1..Len(name) : name[i] = "_"

\* name.split("_")[0], read from the left up to the first underscore
RECURSIVE SplitFirst(_)
SplitFirst(name) ==
    IF name = <<>> \/ Head(name) = "_" THEN <<>>
    ELSE <<Head(name)>> \o SplitFirst(Tail(name))

\* the set downloaded_mods when files are taken for directories too
DownloadedMods_AnyEntry(entries) ==
    {SplitFirst(e.name) : e \in {d \in entries : HasUnderscore(d.name)}}

\* the set downloaded_mods built by the loop over mods_path.iterdir()
DownloadedMods(entries) ==
    {SplitFirst(e.name) : e \in {d \in entries : d.isDir /\ HasUnderscore(d.name)}}

\* _check_all_mods_downloaded(mods_path, required_mods); the path is "none"
\* (None, from _get_mods_directory), "missing" or "dir"
CheckAllModsDownloaded(path, entries, required) ==
    IF path # "dir" THEN FALSE
    ELSE required \subseteq DownloadedMods(entries)

ModsCheckInit ==
    /\ exeExists = TRUE
    /\ worldOpen \in [Worlds -> BOOLEAN]
    /\ profileExists = [w \in Worlds |-> TRUE]
    /\ serverSettings = [w \in Worlds |-> "params"]
    /\ worldSet = DefaultWorldSet
    /\ ui = NoUi
    /\ worldTable = NoTable
    /\ modsOpen = TRUE
    /\ modEntries = [m \in ModIds |-> FALSE]
    /\ beOpen = TRUE
    /\ clusterOpen = FALSE
    /\ settingsFile = TRUE
    /\ modsDir = {}
    /\ logExists = FALSE
    /\ log = <<>>
    /\ profile = DefaultProfile
    /\ iniFile = GeneratedIni
    /\ RunInit
    /\ \E path \in {"none", "missing", "dir"}, req \in SUBSET ModIdTexts :
         \E entries \in (IF path = "dir" THEN SUBSET DirEntries ELSE {{}}) :
            modsCheck = [path |-> path, entries |-> entries, required |-> req,
                         result |-> "none"]

\* one call of _check_all_mods_downloaded
CheckModsCall ==
    /\ modsCheck.result = "none"
    /\ modsCheck' = [modsCheck EXCEPT !.result =
                        IF CheckAllModsDownloaded(modsCheck.path, modsCheck.entries,
                                                  modsCheck.required)
                        THEN "true" ELSE "false"]
    /\ UNCHANGED <<orchestration, worldTable, ui>>

ModsCheckNext == CheckModsCall

\* calls of _check_all_mods_downloaded on every directory within the pool
ModsCheckSpec == ModsCheckInit /\ [][ModsCheckNext]_vars

\* ---------------------------------------------- the world table's save
\* the rows of one table at most
MaxRows == 2

\* what the cells of a row may hold after strip(): the Map ID, the two port
\* texts, the check box
RowIds == {"", "a", "b"}
PortTexts == {"1", "01", "2", "x"}
RconTexts == {"1", "2", "3"}
Rows == [id : RowIds, port : PortTexts, rcon : RconTexts, open : BOOLEAN]
Tables == UNION {[1..n -> Rows] : n \in 0..MaxRows}

\* a text that int() takes
IsNumber(text) == text \in {"1", "01", "2", "3"}

\* int(text) of such a text
ParseInt(text) ==
    CASE text = "1" -> 1
      [] text = "01" -> 1
      [] text = "2" -> 2
      [] text = "3" -> 3

\* __validate_world_data
ValidateWorldData(world_id, port, rcon_port, existing_keys, existing_ports, existing_rcon_ports) ==
    /\ world_id # ""
    /\ world_id \notin existing_keys
    /\ IsNumber(port)
    /\ ParseInt(port) \notin existing_ports
    /\ IsNumber(rcon_port)
    /\ ParseInt(rcon_port) \notin existing_rcon_ports

\* the record __save_world_data builds for one row
WorldRecord(row) ==
    [name |-> "n", port |-> ParseInt(row.port), rcon_port |-> ParseInt(row.rcon),
     open |-> row.open, world_set |-> "default"]

\* the first pass of __save_world_data over the rows: updated_worlds, and
\* ok false at the first row that fails the validation
RECURSIVE FirstPass(_, _, _, _, _)
FirstPass(rows, existing_keys, existing_ports, existing_rcon_ports, updated_worlds) ==
    IF rows = <<>> THEN [ok |-> TRUE, worlds |-> updated_worlds]
    ELSE LET row == Head(rows) IN
         IF ~ValidateWorldData(row.id, row.port, row.rcon, existing_keys,
                               existing_ports, existing_rcon_ports)
         THEN [ok |-> FALSE, worlds |-> updated_worlds]
         ELSE FirstPass(Tail(rows),
                        existing_keys \cup {row.id},
                        existing_ports \cup {ParseInt(row.port)},
                        existing_rcon_ports \cup {ParseInt(row.rcon)},
                        [id \in DOMAIN updated_worlds \cup {row.id} |->
                            IF id = row.id THEN WorldRecord(row)
                            ELSE updated_worlds[id]])

\* the fields of a world record that _start_all_worlds, _log_server_startup
\* and _build_server_command read
FieldsRead == {"open", "session_name", "name", "port", "rcon_port", "world_set"}

\* start() on the store: the loop of _start_all_worlds reads the fields of the
\* first enabled world before anything is launched
StartOnStore(store) ==
    IF \A id \in DOMAIN store : ~store[id].open THEN "no world"
    ELSE IF \E id \in DOMAIN store :
                store[id].open /\ ~(FieldsRead \subseteq DOMAIN store[id])
         THEN "KeyError"
         ELSE "launch"

WorldSaveInit ==
    /\ Init
    /\ exeExists = TRUE
    /\ modsOpen = FALSE
    /\ settingsFile = TRUE
    /\ worldOpen = [w \in Worlds |-> TRUE]
    /\ profileExists = [w \in Worlds |-> TRUE]
    /\ modEntries = [m \in ModIds |-> FALSE]

\* __save_world_data on the rows of the table
SaveWorldData ==
    \E rows \in Tables :
        LET updated == FirstPass(rows, {}, {}, {}, [id \in {} |-> id]) IN
        /\ worldTable' =
              IF ~updated.ok
              THEN [worldTable EXCEPT !.ret = "false", !.start = "none"]
              ELSE [store |-> updated.worlds, ret |-> "true", start |-> "none"]
        /\ UNCHANGED <<orchestration, modsCheck, ui>>

\* OpenServer.start() right after a save that succeeded
StartAfterSave ==
    /\ worldTable.ret = "true"
    /\ worldTable.start = "none"
    /\ worldTable' = [worldTable EXCEPT !.start = StartOnStore(worldTable.store)]
    /\ UNCHANGED <<orchestration, modsCheck, ui>>

WorldSaveNext == SaveWorldData \/ StartAfterSave

\* any sequence of saves of the world table, each perhaps followed by start()
WorldSaveSpec == WorldSaveInit /\ [][WorldSaveNext]_vars

\* ------------------------------------------- the run button and its worker
\* the worker threads started at most
MaxRuns == 3

\* why __run_server returns early with a message box and the button set back
EarlyReturns == {"input", "map", "no world", "multi off"}

\* a sequence without its i-th element
RemoveAt(seq, i) == SubSeq(seq, 1, i - 1) \o SubSeq(seq, i + 1, Len(seq))

\* the workers inside OpenServer.start()
InStart(u) == {i \in 1..Len(u.workers) : u.workers[i] = "start"}

\* the tail of __run_server from the test of worker_finished on: the wait
\* message and a return that leaves the button as it is, or a new thread
RunTail_NoGuard(u) ==
    [u EXCEPT !.box = "none", !.workers = Append(@, "start"), !.started = @ + 1,
              !.enabled = TRUE]

RunTail(u) ==
    IF ~u.worker_finished
    THEN [u EXCEPT !.box = "wait", !.tip = "wait"]
    ELSE [u EXCEPT !.box = "none", !.workers = Append(@, "start"), !.started = @ + 1,
                   !.worker_finished = FALSE]

UiInit ==
    /\ Init
    /\ exeExists = TRUE
    /\ modsOpen = FALSE
    /\ settingsFile = TRUE
    /\ worldOpen = [w \in Worlds |-> TRUE]
    /\ profileExists = [w \in Worlds |-> TRUE]
    /\ modEntries = [m \in ModIds |-> FALSE]

\* a click on the enabled run button: __run_server up to its first message
\* box, or up to its end when it shows none
RunServerClick ==
    /\ ui.enabled
    /\ ui.box = "none"
    /\ ui.started < MaxRuns
    /\ \/ \E why \in EarlyReturns :
             ui' = [ui EXCEPT !.enabled = FALSE, !.box = "fail", !.tip = why]
       \/ ui' = [ui EXCEPT !.enabled = FALSE, !.box = "confirm", !.tip = "confirm"]
       \/ ui' = RunTail([ui EXCEPT !.enabled = FALSE, !.tip = "none"])
    /\ UNCHANGED <<orchestration, modsCheck, worldTable>>

\* the operator closes the message box of an early return
CloseFailBox ==
    /\ ui.box = "fail"
    /\ ui' = [ui EXCEPT !.box = "none", !.enabled = TRUE]
    /\ UNCHANGED <<orchestration, modsCheck, worldTable>>

\* the operator answers the question about several worlds
CloseConfirmBox ==
    /\ ui.box = "confirm"
    /\ \/ ui' = [ui EXCEPT !.box = "none", !.enabled = TRUE, !.tip = "cancel"]
       \/ ui' = RunTail(ui)
    /\ UNCHANGED <<orchestration, modsCheck, worldTable>>

\* the operator closes the message that the server is still starting
CloseWaitBox ==
    /\ ui.box = "wait"
    /\ ui' = [ui EXCEPT !.box = "none"]
    /\ UNCHANGED <<orchestration, modsCheck, worldTable>>

\* ServerWorker.run: start() returned or raised, reset_button is emitted
WorkerStartEnds ==
    \E i \in 1..Len(ui.workers) :
        /\ ui.workers[i] = "start"
        /\ ui' = [ui EXCEPT !.workers[i] = "reset_sent",
                            !.queue = Append(@, "reset_button")]
        /\ UNCHANGED <<orchestration, modsCheck, worldTable>>

\* ServerWorker.run: self_finished is emitted and the thread quits
WorkerQuits ==
    \E i \in 1..Len(ui.workers) :
        /\ ui.workers[i] = "reset_sent"
        /\ ui' = [ui EXCEPT !.workers = RemoveAt(@, i),
                            !.queue = Append(@, "self_finished")]
        /\ UNCHANGED <<orchestration, modsCheck, worldTable>>

\* the event loop of the UI thread, also the one a message box runs, hands
\* the oldest queued signal to its slot: __set_run_button(True) or
\* __set_finished_status
DeliverSignal ==
    /\ ui.queue # <<>>
    /\ ui' = IF Head(ui.queue) = "reset_button"
             THEN [ui EXCEPT !.queue = Tail(@), !.enabled = TRUE]
             ELSE [ui EXCEPT !.queue = Tail(@), !.worker_finished = TRUE]
    /\ UNCHANGED <<orchestration, modsCheck, worldTable>>

UiNext ==
    \/ RunServerClick
    \/ CloseFailBox
    \/ CloseConfirmBox
    \/ CloseWaitBox
    \/ WorkerStartEnds
    \/ WorkerQuits
    \/ DeliverSignal

\* every interleaving of clicks, message boxes, workers and queued signals
UiSpec == UiInit /\ [][UiNext]_vars

\* ------------------------------------------------------------- claims
\* a bootstrap phase, or start() itself, has just handed control back
PhaseReturned == pc \in {"mods", "worlds", "done"}

\* C1, as stated: when a bootstrap phase returns control, no disposable
\* process launched by that phase is still alive, whatever the termination
\* tiers of _cleanup_temp_server did.
C1_NoTempAliveAtReturn ==
    PhaseReturned => \A p \in tempLaunched : ~Alive(p)

\* C1, amended: when a bootstrap phase returns control, _cleanup_temp_server
\* has run: _temp_process is None, and a disposable process launched by the
\* phase is still alive only if both termination tiers failed on it.
C1_CleanupOnEveryExit ==
    PhaseReturned =>
        /\ temp_process = None
        /\ \A p \in tempLaunched : Alive(p) => p \in leaked

\* C1 witness: the settings phase timed out with a temp server launched,
\* and cleanup left none of its processes alive.
C1_Witness ==
    /\ pc = "done"
    /\ settingsRet = "false"
    /\ tempLaunched # {}
    /\ \A p \in tempLaunched : ~Alive(p)

\* C2: once the settings-file phase or the mods phase has returned false,
\* start() is over and no world was written for, launched or monitored.
C2_NoWorldAfterFailedPhase ==
    (settingsRet = "false" \/ modsRet = "false") =>
        /\ pc = "done"
        /\ cur = 0
        /\ launchOrder = <<>>
        /\ writeOrder = <<>>
        /\ \A w \in Worlds : processes[w].kind # "pid"

\* C2 witness: the mods phase used up its attempts and returned false.
C2_Witness ==
    /\ modsRet = "false"
    /\ attempt = max_retry_attempts
    /\ pc = "done"

\* C3: once the launch of a world has failed, the run is over, no world
\* after it in stored order was written for or launched, and every world
\* that reached Ready still has its handle in the registry and its process
\* was not killed.
C3_FailureStopsLaterWorlds ==
    /\ \A k \in Worlds : outcome[k] = "Failed" =>
          /\ pc = "done"
          /\ \A j \in Worlds : j > k =>
                /\ outcome[j] = "none"
                /\ processes[j] = NoHandle
                /\ \A i \in 1..Len(launchOrder) : launchOrder[i] # j
                /\ \A i \in 1..Len(writeOrder) : writeOrder[i] # j
    /\ \A r \in Worlds : outcome[r] = "Ready" =>
          /\ processes[r].kind = "pid"
          /\ procs[processes[r].pid] # "killed"

\* C3 witness: world 1 is Ready and still running, world 2 failed.
C3_Witness ==
    /\ pc = "done"
    /\ outcome[1] = "Ready"
    /\ outcome[NumWorlds] = "Failed"
    /\ Alive(processes[1].pid)

\* C4, as stated: every world after the first is launched only after the
\* orchestrator slept the inter-launch delay (so n worlds are preceded by
\* n-1 such sleeps); here at the first pass of the retry loop of a world
\* that is not the first one written for.
C4_InterLaunchDelay ==
    (pc = "L_loop" /\ lastFail = "none") =>
        IF Len(writeOrder) > 1
        THEN lastSleep = "inter_launch"
        ELSE lastSleep # "inter_launch"

\* the worlds of a history, in the order they were taken up
InStoredOrder(order) ==
    /\ \A i \in 1..Len(order) : worldOpen[order[i]]
    /\ \A i \in 1..Len(order) : \A j \in 1..Len(order) : i < j => order[i] < order[j]
    /\ \A i \in 1..Len(order) : \A w \in Worlds :
          (w < order[i] /\ worldOpen[w]) => \E j \in 1..(i - 1) : order[j] = w
    /\ \A i \in 1..(Len(order) - 1) : outcome[order[i]] = "Ready"

\* C5: worlds are written for and launched in stored order, closed worlds
\* never, no enabled world is skipped, and a world is written for or
\* launched only when every world before it in the order is Ready.
C5_SequentialInStoredOrder ==
    /\ InStoredOrder(launchOrder)
    /\ InStoredOrder(writeOrder)
    /\ Len(launchOrder) <= Len(writeOrder)
    /\ \A i \in 1..Len(launchOrder) : launchOrder[i] = writeOrder[i]
    /\ \A w \in Worlds : (~worldOpen[w]) => processes[w] = NoHandle

\* C5 witness: the second world is being monitored after the first became Ready.
C5_Witness ==
    /\ pc = "L_wait"
    /\ Len(launchOrder) = 2
    /\ outcome[launchOrder[1]] = "Ready"

\* C6: at most max_retries attempts of a call end in a non-transient
\* failure, and after the last of them nothing is launched: the call
\* returns false.
C6_BoundedHardFailures ==
    /\ hardFails <= max_retries
    /\ hardFails = max_retries => pc \in {"L_loop", "done"}
    /\ (hardFails = max_retries /\ pc = "done") => outcome[cur] = "Failed"

\* C6 witness: a call returned false after max_retries failed attempts.
C6_Witness ==
    /\ pc = "done"
    /\ hardFails = max_retries
    /\ outcome[cur] = "Failed"

\* C7, as stated: after an attempt ended on a transient error pattern, the
\* count of consumed attempts is what it was before that attempt started,
\* also when the force-kill failed.
C7_TransientConsumesNoAttempt ==
    (pc = "L_loop" /\ lastFail \in {"transient", "transient_killfail"}) =>
        retry_count = countBefore

\* the worker is inside _launch_and_monitor_server
InLaunchAndMonitor == pc \in {"L_loop", "L_wait"}

\* C8, as stated: every call of _launch_and_monitor_server eventually
\* returns, also when every attempt's log shows a transient error pattern.
C8_LaunchEventuallyReturns == InLaunchAndMonitor ~> ~InLaunchAndMonitor

\* what the monitor has read is the file's content up to its offset
C9_ReadOnceInv ==
    /\ last_log_size <= Len(log)
    /\ totalRead = SubSeq(log, 1, last_log_size)
    /\ Len(new_content) <= last_log_size
    /\ new_content = SubSeq(log, last_log_size - Len(new_content) + 1, last_log_size)

\* C9: within an attempt the read offset never decreases, never passes the
\* end of the file, and the text read so far is exactly the file's content
\* up to the offset, each byte once.
C9_ReadEachByteOnce ==
    /\ []C9_ReadOnceInv
    /\ [][pc = "L_wait" => last_log_size' >= last_log_size]_vars

\* C9 witness: two polls of one attempt read one fragment each.
C9_Witness ==
    /\ pc = "L_wait"
    /\ last_log_size = 2
    /\ Len(new_content) = 1
    /\ Len(totalRead) = 2

\* C10, as stated: Ready is reported only for new text that holds a ready
\* pattern and no error pattern.
C10_ErrorBeatsReady ==
    (pc = "worlds" /\ cur # 0 /\ outcome[cur] = "Ready") =>
        (HasReady(new_content) /\ ~HasError(new_content))

\* C11: every launch of a world's server (first attempt and every retry)
\* starts with the world's log file removed and the read offset at 0, and
\* whatever an attempt's verdict is derived from is text of the log as
\* written since that launch.
C11_FreshLogPerAttempt ==
    /\ [][(pc = "L_loop" /\ pc' = "L_wait") =>
             (~logExists' /\ log' = <<>> /\ last_log_size' = 0)]_vars
    /\ [](pc = "L_wait" => new_content =
             SubSeq(log, last_log_size - Len(new_content) + 1, last_log_size))

\* C11 witness: a restart of the world's server is being monitored, its log
\* not yet written and nothing read.
C11_Witness ==
    /\ pc = "L_wait"
    /\ retry_count = 2
    /\ lastSleep = "restart"
    /\ ~logExists
    /\ log = <<>>
    /\ last_log_size = 0

\* C12: a bootstrap phase entered with its precondition already true (the
\* settings file exists; mods are on and every enabled mod id is under the
\* mods directory) returns true in that step, launches no process, and
\* leaves _temp_process, the process registry and the processes as they were.
C12_PreconditionHoldsNoLaunch ==
    [][/\ (pc = "settings" /\ settingsFile /\ pc' # pc) =>
             /\ settingsRet' = "true"
             /\ pc' = "mods"
             /\ tempLaunched' = {}
             /\ temp_process' = temp_process
             /\ processes' = processes
             /\ procs' = procs
       /\ (/\ pc = "mods"
           /\ modsOpen
           /\ \E m \in ModIds : modEntries[m]
           /\ \A m \in ModIds : modEntries[m] => m \in modsDir
           /\ pc' # pc) =>
             /\ modsRet' = "true"
             /\ pc' = "worlds"
             /\ tempLaunched' = {}
             /\ temp_process' = temp_process
             /\ processes' = processes
             /\ procs' = procs]_vars

\* C12 witness: both phases found their precondition true at entry (mods
\* are on, an enabled mod is already downloaded) and no process was ever
\* launched.
C12_Witness ==
    /\ pc = "worlds"
    /\ settingsRet = "true"
    /\ modsRet = "true"
    /\ modsOpen
    /\ \E m \in ModIds : modEntries[m] /\ m \in modsDir
    /\ tempLaunched = {}
    /\ temp_process = None
    /\ \A w \in Worlds : processes[w] = NoHandle
    /\ \A p \in PIDs : procs[p] = "unused"

\* C13: with mods globally off, or on with no mod entry enabled, the mods
\* phase returns true in one step, without looking at the mods directory and
\* without launching a process.
C13_ModsPhaseSkipped ==
    /\ [][(/\ pc = "mods"
            /\ (~modsOpen \/ \A m \in ModIds : ~modEntries[m])
            /\ pc' # pc) =>
              /\ modsRet' = "true"
              /\ pc' = "worlds"
              /\ ~modsChecked'
              /\ tempLaunched' = {}
              /\ temp_process' = temp_process
              /\ processes' = processes
              /\ procs' = procs]_vars
    /\ []((~modsOpen \/ \A m \in ModIds : ~modEntries[m]) =>
             (~modsChecked /\ modsRet \in {"none", "true"}))

\* C13 witness: mods are on, no entry is enabled, and the phase returned
\* true without having looked at the mods directory.
C13_Witness ==
    /\ pc = "worlds"
    /\ modsOpen
    /\ \A m \in ModIds : ~modEntries[m]
    /\ modsRet = "true"
    /\ ~modsChecked
    /\ temp_process = None

\* C14: a relaunch inside a wait loop leaves the attempt counter as it is;
\* the counter goes up by exactly one per wait window, so that it counts the
\* windows that ran to their full max_wait plus the window in progress.
C14_RelaunchKeepsAttempt ==
    /\ [][(pc \in {"S_wait", "M_wait"} /\ pc' = pc) => attempt' = attempt]_vars
    /\ [][(pc \in {"mods", "M_attempt", "M_wait"} /\ attempt' # attempt) =>
             (pc = "M_attempt" /\ attempt' = attempt + 1 /\ attempt = windows)]_vars
    /\ [](pc = "M_wait" => attempt = windows + 1)
    /\ [](pc = "M_attempt" => attempt = windows)

\* C14 witness: the temp server died in the first window of the mods phase
\* and was relaunched, and the attempt counter still reads 1.
C14_Witness ==
    /\ pc = "M_wait"
    /\ attempt = 1
    /\ windows = 0
    /\ Cardinality(tempLaunched) = 2
    /\ Alive(temp_process)

\* C15, as stated: a bootstrap phase that launched a disposable process
\* returns false only after max_retry_attempts full wait windows, the
\* settings-file phase as well as the mods phase, and no window's process
\* is still held when the next attempt starts.
C15_FalseOnlyAfterBudget ==
    /\ ((settingsRet = "false" \/ modsRet = "false") /\ tempLaunched # {}) =>
          windows = max_retry_attempts
    /\ pc = "M_attempt" => temp_process = None

\* C17, as stated: no call of stop() raises, and after a call the handle it
\* was about (every handle, for stop() with no argument) is gone from the
\* registry, for temp-server process objects and pid records alike.
C17_StopDropsAndNeverRaises ==
    /\ stopCall.result # "raised"
    /\ (stopCall.result = "returned" /\ stopCall.arg # None) =>
          processes[stopCall.arg] = NoHandle
    /\ (stopCall.result = "returned" /\ stopCall.arg = None) =>
          \A w \in Worlds : processes[w] = NoHandle

\* C18, as stated: the second of two calls of _write_game_user_settings in
\* a row, with the same non-empty profile sections and the file untouched in
\* between, does not write GameUserSettings.ini.
C18_SecondMergeWritesNothing ==
    (mergeCalls >= 2 /\ MergedSections(profile) # {}) => lastWrites = 0

\* C19: a merge keeps every section and every key the file had, and changes
\* the value of a key only to the value the profile gives that key in a
\* merged section (not ServerSettings, not a tip section).
C19_MergeKeepsEverything ==
    [][mergeCalls' = mergeCalls + 1 =>
         /\ iniFile.secs \subseteq iniFile'.secs
         /\ \A s \in Sections : \A k \in Keys :
               /\ iniFile.kv[s][k] # NoValue => iniFile'.kv[s][k] # NoValue
               /\ iniFile'.kv[s][k] # iniFile.kv[s][k] =>
                     /\ s \notin TipSections
                     /\ s # "ServerSettings"
                     /\ s \in profile.secs
                     /\ profile.kv[s][k] # NoValue
                     /\ iniFile'.kv[s][k] = profile.kv[s][k]]_vars

\* C19 witness: after a merge that wrote the file, a section took the
\* profile's value for one key and kept a key the profile does not name,
\* and ServerSettings, which the profile also has, was left as it was.
C19_Witness ==
    /\ mergeCalls = 1
    /\ lastWrites = 1
    /\ profile.kv["MessageOfTheDay"]["message"] = "a"
    /\ iniFile.kv["MessageOfTheDay"]["message"] = "a"
    /\ iniFile.kv["MessageOfTheDay"]["Message"] = "b"
    /\ "ServerSettings" \in iniFile.secs
    /\ "ServerSettings" \in profile.secs
    /\ iniFile.kv["ServerSettings"]["message"] = NoValue

\* the places of the -mods= parts of the command
ModsParts == {i \in 1..Len(command) : command[i].opt = "-mods="}

\* C20: a built command has exactly one -mods= part when mods are on and at
\* least one mod entry is enabled, and none otherwise; the part lists the
\* enabled mod ids, each once, and no other id.
C20_OneModsToken ==
    command # NoCommand =>
        IF modsOpen /\ \E m \in ModIds : modEntries[m]
        THEN /\ Cardinality(ModsParts) = 1
             /\ \A i \in ModsParts :
                   /\ {command[i].ids[j] : j \in 1..Len(command[i].ids)}
                          = {m \in ModIds : modEntries[m]}
                   /\ Len(command[i].ids) = Cardinality({m \in ModIds : modEntries[m]})
        ELSE ModsParts = {}

\* C20 witness: a command built with mods on and both stored mods enabled,
\* next to the other optional parts.
C20_Witness ==
    /\ command # NoCommand
    /\ modsOpen
    /\ \A m \in ModIds : modEntries[m]
    /\ ~beOpen
    /\ clusterOpen
    /\ \E i \in ModsParts : command[i].ids = ModOrder

\* the worlds for which a real server was launched
LaunchedWorlds == {launchOrder[i] : i \in 1..Len(launchOrder)}

\* C21: for a world whose profile file does not exist _build_server_command
\* signals an error and hands back no command (the run ends with the
\* exception), and no process is ever launched for that world: the registry
\* holds no handle for it, it is not among the launched worlds and no part of
\* a built command names it.
C21_MissingProfileNoCommandNoLaunch ==
    \A w \in Worlds :
        ~profileExists[w] =>
            /\ processes[w] = NoHandle
            /\ w \notin LaunchedWorlds
            /\ \A i \in 1..Len(command) : command[i].world # w
            /\ built = w => (command = NoCommand /\ pc = "done" /\ result = "raised")

\* C21 witness: the first world became ready and the command of the second
\* world, whose profile is missing, was asked for.
C21_Witness ==
    /\ built # None
    /\ ~profileExists[built]
    /\ Len(launchOrder) = 1
    /\ outcome[launchOrder[1]] = "Ready"
    /\ result = "raised"

\* C22: for a profile file that exists, _build_server_command raises and
\* hands back no command when the file has no [ServerSettings] section, and
\* hands back a command whose world parameter block is empty when the section
\* is there but has no items.
C22_NoSectionRaises ==
    \A w \in Worlds :
        (built = w /\ profileExists[w]) =>
            /\ serverSettings[w] = "absent" => command = NoCommand
            /\ serverSettings[w] = "empty" =>
                   \E i \in 1..Len(command) :
                       /\ command[i].opt = "?listen?"
                       /\ command[i].world = w
                       /\ command[i].ids = <<>>

\* the run ended on a configuration error: the executable is missing, or the
\* last call of _build_server_command raised for a missing profile
ConfigError ==
    /\ pc = "done"
    /\ \/ ~exeExists
       \/ built # None /\ ~profileExists[built] /\ result = "raised"

\* C23: when a run ends on a configuration error no process, disposable or
\* real, has been launched: no world was launched, the registry is empty and
\* no process was ever created.
C23_ConfigErrorBeforeAnyProcess ==
    ConfigError =>
        /\ launchOrder = <<>>
        /\ \A w \in Worlds : processes[w] = NoHandle
        /\ \A p \in PIDs : procs[p] = "unused"

\* the registry entries that hold a handle
Handles == {w \in Worlds : processes[w] # NoHandle}

\* the configuration of the first scenario: exactly one enabled world, the
\* settings file present, mods disabled
OneWorldNoBootstrap ==
    /\ Cardinality({w \in Worlds : worldOpen[w]}) = 1
    /\ settingsFile
    /\ ~modsOpen

\* C24: in a run that starts with exactly one enabled world, the settings
\* file present and mods disabled, and whose server writes its ready pattern,
\* start() returns with exactly one handle in the registry, which is the pid
\* record of the enabled world's live server, exactly one Ready outcome,
\* exactly one process launched, and all along the run there is at most one
\* launch attempt and no temp server launched by either bootstrap phase.
C24_OneWorldScenario ==
    OneWorldNoBootstrap =>
        [](/\ retry_count <= 1
           /\ Cardinality({p \in PIDs : procs[p] # "unused"}) <= 1
           /\ tempLaunched = {} /\ temp_process = None /\ leaked = {}
           /\ pc = "done" =>
             /\ result = "returned"
             /\ settingsRet = "true" /\ modsRet = "true"
             /\ Cardinality(Handles) = 1
             /\ \A w \in Handles :
                    /\ worldOpen[w]
                    /\ processes[w].kind = "pid"
                    /\ Alive(processes[w].pid)
                    /\ launchOrder = <<w>>
             /\ Cardinality({w \in Worlds : outcome[w] = "Ready"}) = 1
             /\ \A w \in Worlds : outcome[w] \in {"Ready", "none"}
             /\ Cardinality({p \in PIDs : procs[p] # "unused"}) = 1)

\* C24 witness: the run of the scenario is over, with one world Ready.
C24_Witness ==
    /\ pc = "done"
    /\ Cardinality({w \in Worlds : worldOpen[w]}) = 1
    /\ \E w \in Worlds : outcome[w] = "Ready" /\ Alive(processes[w].pid)
    /\ \A p \in PIDs : procs[p] \in {"unused", "alive"}
    /\ mergeCalls = 1

\* the processes that are the live server of a registered real launch
RealServers == {processes[w].pid : w \in {v \in Worlds : processes[v].kind = "pid"}}

\* the settings-file phase has just returned True after launching a temp server
SettingsPhaseDoneWithTemp ==
    /\ pc = "mods"
    /\ settingsRet = "true"
    /\ tempLaunched # {}

\* C25, as stated: with the settings file absent and a temp server that stays
\* alive and creates the file, the settings-file phase launches exactly one
\* temp process and that process is terminated when the phase returns; no
\* real world is launched during the phase, and once a real world has been
\* launched the only live processes are real servers.
C25_TempTerminatedBeforeRealLaunch ==
    /\ SettingsPhaseDoneWithTemp =>
           /\ Cardinality(tempLaunched) = 1
           /\ \A p \in tempLaunched : ~Alive(p)
    /\ pc \in {"settings", "S_wait"} => (launchOrder = <<>> /\ RealServers = {})
    /\ launchOrder # <<>> => \A p \in PIDs : Alive(p) => p \in RealServers

\* C25, amended: the phase launches exactly one temp process and runs
\* _cleanup_temp_server on it before it returns: _temp_process is None and the
\* process is still alive only if both termination tiers failed on it; no
\* real world is launched during the phase, and once a real world has been
\* launched every live process is a real server or such a leftover.
C25_TempCleanedBeforeRealLaunch ==
    /\ SettingsPhaseDoneWithTemp =>
           /\ Cardinality(tempLaunched) = 1
           /\ temp_process = None
           /\ \A p \in tempLaunched : Alive(p) => p \in leaked
    /\ pc \in {"settings", "S_wait"} => (launchOrder = <<>> /\ RealServers = {})
    /\ launchOrder # <<>> =>
           /\ temp_process = None
           /\ \A p \in PIDs : Alive(p) => (p \in RealServers \/ p \in leaked)

\* C25 witness: the phase returned True after its temp server, still alive
\* when the file appeared, was terminated.
C25_Witness ==
    /\ SettingsPhaseDoneWithTemp
    /\ \A p \in tempLaunched : procs[p] = "killed"
    /\ leaked = {}
    /\ settingsFile

\* C26: start() never hands an exception to its caller: whatever fails during
\* the run, start() ends by returning normally.
C26_StartNeverRaises == result # "raised"

\* C27: when stop() runs while start() is running, their accesses to the
\* registry exclude each other, so no interleaving ends in a missing-key
\* error: neither the monitoring loop's read of the entry it has just tested
\* nor the del of stop() finds the key gone.
C27_NoMissingKey ==
    /\ lastFail # "KeyError"
    /\ stopCall.result # "KeyError"

\* C28: the registry holds no handle of a process that the orchestrator
\* itself terminated (the cleanup of a temp server, the kill after a timeout
\* or an exit, the kill after the error pattern), at no point of a run and
\* in particular not when start() is over.
C28_NoHandleOfTerminatedProcess ==
    \A w \in Worlds :
        processes[w] # NoHandle => procs[processes[w].pid] # "killed"

\* C29: _cleanup_temp_server tries the process-tree terminate first and
\* taskkill by pid second; taskkill is tried exactly when the first tier
\* failed; after the call a temp process of the phase is alive only as the
\* left-over of two failed tiers, and none is when a tier of the settings
\* phase's one call succeeded; whatever the tiers did the call hands control
\* back with _temp_process = None; and with _temp_process already None no
\* tier is tried.
C29_CleanupTiersInOrder ==
    /\ cleanupTiers[2] \in {"ok", "fail"} <=> cleanupTiers[1] = "exc"
    /\ cleanupTiers # NoTiers => temp_process = None
    /\ cleanupTiers # NoTiers => \A p \in tempLaunched : Alive(p) => p \in leaked
    /\ (pc = "mods" /\ (cleanupTiers[1] = "ok" \/ cleanupTiers[2] = "ok")) =>
           \A p \in tempLaunched : ~Alive(p)
    /\ cleanupTiers = <<"exc", "fail">> => leaked # {}
    /\ cleanupTiers[1] = "skip" => cleanupTiers[2] = "skip"

\* C29 witness: a call whose first tier failed and whose second tier killed
\* the temp server.
C29_Witness ==
    /\ cleanupTiers = <<"exc", "ok">>
    /\ temp_process = None
    /\ \E p \in tempLaunched : procs[p] = "killed"

\* the mod ids named by the -mods= part of the last command
CommandMods ==
    UNION {{command[i].ids[j] : j \in 1..Len(command[i].ids)} : i \in ModsParts}

\* C30: the enabled mod ids that the mods phase worked with are the ones on
\* the command of every world launched in the run, also when the mod list is
\* saved from the UI thread while start() is running.
C30_OneSnapshotOfMods ==
    (pc \in {"L_loop", "L_wait"} /\ built = cur) => CommandMods = bootMods

\* id is the part before the first underscore of name
IsPrefixBeforeFirstUnderscore(id, name) ==
    \E i \in 1..Len(name) :
        /\ name[i] = "_"
        /\ \A j \in 1..(i - 1) : name[j] # "_"
        /\ id = SubSeq(name, 1, i - 1)

\* C31: _check_all_mods_downloaded returns true exactly when the path exists
\* and every required id is the part before the first underscore of the name
\* of some subdirectory of it; it returns false when the path is missing.
C31_ModsCheckIsPrefixMatch ==
    modsCheck.result # "none" =>
        (modsCheck.result = "true" <=>
            /\ modsCheck.path = "dir"
            /\ \A id \in modsCheck.required :
                   \E e \in modsCheck.entries :
                       e.isDir /\ IsPrefixBeforeFirstUnderscore(id, e.name))

\* C31 witness: a call that returned true for two required ids, next to a
\* plain file and a directory without underscore that do not count.
C31_Witness ==
    /\ modsCheck.result = "true"
    /\ Cardinality(modsCheck.required) = 2
    /\ \E e \in modsCheck.entries : ~e.isDir
    /\ \E e \in modsCheck.entries : e.isDir /\ ~HasUnderscore(e.name)

\* the numbers a stored world uses, as port or as rcon port
NumbersOf(rec) == {rec.port, rec.rcon_port}

\* C32: after any sequence of saves of the world table the stored worlds have
\* ports unique across the worlds and rcon ports unique across the worlds, and
\* no number is used as a port or rcon port by two different worlds.
C32_NoNumberSharedByTwoWorlds ==
    \A a, b \in DOMAIN worldTable.store :
        a # b => NumbersOf(worldTable.store[a]) \cap NumbersOf(worldTable.store[b]) = {}

\* C39: every record the save of the world table writes holds all the fields
\* the orchestrator reads, and a start() right after a successful save never
\* fails on a missing field of an enabled world.
C39_SavedRecordsHaveAllFields ==
    /\ \A id \in DOMAIN worldTable.store : FieldsRead \subseteq DOMAIN worldTable.store[id]
    /\ worldTable.start # "KeyError"

\* C37: at most one worker executes OpenServer.start() at any time, for every
\* interleaving of clicks, worker completion and the queued signals.
C37_OneWorkerInStart == Cardinality(InStart(ui)) <= 1

\* C37 witness: a second run was started after the first one ended: a worker
\* is inside start() while the page has already handled both signals of an
\* earlier one and shown the confirmation before.
C37_Witness ==
    /\ Cardinality(InStart(ui)) = 1
    /\ ui.tip = "confirm"
    /\ ui.queue = <<>>
    /\ ~ui.worker_finished

\* no worker thread is alive, nothing is queued and no message box is open
UiQuiet == ui.workers = <<>> /\ ui.queue = <<>> /\ ui.box = "none"

\* C38: the run button is never left disabled with no run in progress: when
\* the click is handled, no worker runs and no signal is pending, the button
\* is enabled and worker_finished is true.
C38_ButtonNeverStuck == UiQuiet => (ui.enabled /\ ui.worker_finished)

\* C33: a new process for a world is launched only when no earlier process
\* launched for that world is still alive: at each launch of
\* _launch_and_monitor_server the process the registry holds for the world,
\* a temp server or the one of an earlier attempt, is not alive.
C33_LaunchOnlyWhenEarlierDead ==
    [][(pc = "L_loop" /\ pc' = "L_wait") => ~Alive(processes[cur].pid)]_vars

\* the worker is inside the waiting loop of a bootstrap phase
InBootstrapPhase == pc \in {"S_wait", "M_attempt", "M_wait"}

\* C34: each bootstrap phase eventually returns, after a bounded number of
\* launches, also when every disposable process it launches exits before the
\* precondition holds.
C34_BootstrapPhaseReturns == InBootstrapPhase ~> ~InBootstrapPhase

\* C35: when the server stays alive and its log comes to hold a complete ready
\* pattern and no error pattern before the timeout, the monitor reports Ready
\* however the bytes were split across polls: an attempt that is not reported
\* Ready has not read a complete ready pattern without an error pattern.
C35_ReadyHoweverSplit ==
    InLaunchAndMonitor => ~(HasReady(totalRead) /\ ~HasError(totalRead))

\* the file holds every value of the merged sections of a profile
HoldsSectionsOf(file, prof) ==
    \A s \in MergedSections(prof) :
        /\ s \in file.secs
        /\ \A k \in Keys : prof.kv[s][k] # NoValue => file.kv[s][k] = prof.kv[s][k]

\* C36: the sections merged into the shared settings file just before a world
\* is launched come from the profile that world names in world_set, whichever
\* profile was last selected through change_config_path: after the merge for
\* the world the file holds the values of that profile.
C36_MergedFromOwnProfile ==
    (pc = "L_loop" /\ retry_count = 0 /\ lastWrites = 1) =>
        HoldsSectionsOf(iniFile, ProfileFile(worldSet[cur]))

====
